---- MODULE Spec2Model ----
(***************************************************************************)
(* Content-bundle subsystem of gmpublisher (src-tauri/src/bundles.rs):     *)
(* the text codec Bundle::import / Bundle::export, the collection          *)
(* reconciliation inside import, and the BUNDLES store (Bundles::init,     *)
(* get_bundles, update_bundle) behind its parking_lot mutex.               *)
(*                                                                         *)
(* Texts are sequences of one-character strings.  Option<T> is a sequence  *)
(* of length 0 (None) or 1 (Some).                                         *)
(***************************************************************************)
EXTENDS Integers, Sequences, FiniteSets, TLC

(***************************************************************************)
(* Bounds of the model.                                                    *)
(***************************************************************************)
MaxLines == 4        \* lines of a source text handed to import (codec)
MaxOracleLen == 2    \* members in one oracle response
MaxItem == 2         \* Workshop item ids are 1..MaxItem
MaxTime == 2         \* instants are 1..MaxTime seconds after the epoch

MaxBundleId == 2     \* import is not started once BUNDLES.id reaches it
MaxImports == 2      \* imports started in one session
MaxTorn == 1         \* fields of a Bundle that reach the file in a failed write

Threads == { "t1", "t2" }

VARIABLES
    \* the program
    BUNDLES,     \* the value behind the BUNDLES mutex: [saved, id]
    lock,        \* holder of the BUNDLES mutex, or "free"
    disk,        \* content_generator/: file name (a bundle id) -> bytes
    stdlib,         \* the binary_search of the standard library in the build
    pc,          \* per thread: where it is in import / update_bundle
    imp,         \* per thread: locals of the running import
    upd,         \* per thread: argument of the running update_bundle
    hand,        \* the Bundle the last import returned to the webview (Option)
    ret,         \* what the step just taken returned from update_bundle, or ""
    done,        \* the Bundle the step just taken finished upserting (Option)
    seen,        \* the list the step just taken read through the reference
                 \* get_bundles returned (Option)
    \* history, for stating properties
    log,         \* the imports that returned in this session, in order:
                 \* the id each got and the ids handed out while it ran
    started,     \* imports started in this session
    \* the codec on its own: import, export, import again
    cpc, c_src, c_fetched, c_now, c_imported, c_names, c_cname, c_exported, c_reimported

storeVars == << BUNDLES, lock, disk, pc, imp, upd, hand, ret, done, seen, log, started >>
codecVars == << cpc, c_src, c_fetched, c_now, c_imported, c_names, c_cname, c_exported, c_reimported >>
vars == << BUNDLES, lock, disk, stdlib, pc, imp, upd, hand, ret, done, seen, log, started,
           cpc, c_src, c_fetched, c_now, c_imported, c_names, c_cname, c_exported, c_reimported >>

None == << >>
Some(x) == << x >>
IsSome(o) == Len(o) = 1
Unwrap(o) == o[1]

Range(s) == { s[i] : i \in 1..Len(s) }

(***************************************************************************)
(* Characters and decimal numbers.                                         *)
(***************************************************************************)
DigitChars == << "0", "1", "2", "3", "4", "5", "6", "7", "8", "9" >>
IsDigit(c) == \E d \in 1..10 : DigitChars[d] = c
DigitVal(c) == (CHOOSE d \in 1..10 : DigitChars[d] = c) - 1

RECURSIVE to_string(_)
\* u64/u16 Display: decimal, no padding.
to_string(n) ==
    IF n < 10 THEN << DigitChars[n + 1] >>
    ELSE to_string(n \div 10) \o << DigitChars[(n % 10) + 1] >>

RECURSIVE DecValue(_, _)
DecValue(s, acc) ==
    IF s = << >> THEN acc ELSE DecValue(Tail(s), acc * 10 + DigitVal(Head(s)))

\* str::parse::<u64>: Ok for a non-empty run of decimal digits (an optional
\* leading "+" is accepted by Rust too, but \d+ never captures one).  Values
\* in the model stay far below 2^64, so the overflow error does not arise.
parse_u64(s) ==
    IF s # << >> /\ \A i \in 1..Len(s) : IsDigit(s[i])
    THEN Some(DecValue(s, 0))
    ELSE None

(***************************************************************************)
(* Timestamps: whole seconds after the epoch, within the first minute.     *)
(***************************************************************************)
Rfc2822Prefix == << "T", "h", "u", ",", " ", "0", "1", " ", "J", "a", "n", " ", "1", "9", "7", "0", " ", "0", "0", ":", "0", "0", ":" >>
Rfc2822Suffix == << " ", "+", "0", "0", "0", "0" >>

\* DateTime<Utc>::to_rfc2822
to_rfc2822(t) ==
    Rfc2822Prefix \o << DigitChars[(t \div 10) + 1], DigitChars[(t % 10) + 1] >> \o Rfc2822Suffix

\* DateTime::parse_from_rfc2822(..).with_timezone(&Utc), on the dates the
\* model can write; anything else is an Err.
parse_from_rfc2822(s) ==
    LET p == Len(Rfc2822Prefix)
        q == Len(Rfc2822Suffix)
    IN  IF /\ Len(s) = p + 2 + q
           /\ SubSeq(s, 1, p) = Rfc2822Prefix
           /\ SubSeq(s, p + 3, p + 2 + q) = Rfc2822Suffix
           /\ IsDigit(s[p + 1]) /\ IsDigit(s[p + 2])
           /\ DigitVal(s[p + 1]) < 6
        THEN Some(DigitVal(s[p + 1]) * 10 + DigitVal(s[p + 2]))
        ELSE None

\* RE_BUNDLE_DATA, multi-line:
\*   ^[ \t]*(?:(?:("|'|\[(=*)\[)(\d+)(?:\1|\]\2\]))|--#[ \t]*+(.+?)(?:[ \t]+(.+)|$))
\* No part of the pattern matches a line feed and every match starts at ^,
\* so captures_iter yields at most one match per line, tried at the start of
\* the line.
\* the lines of a text: the pieces between line feeds, in order
SplitLines(text) ==
    LET breaks == SelectSeq([ i \in 1..Len(text) |-> i ], LAMBDA i : text[i] = "\n")
    IN  [ n \in 1..(Len(breaks) + 1) |->
            SubSeq(text,
                   IF n = 1 THEN 1 ELSE breaks[n - 1] + 1,
                   IF n > Len(breaks) THEN Len(text) ELSE breaks[n] - 1) ]

Blanks == { " ", "\t" }
Digits == Range(DigitChars)

RECURSIVE RunLen(_, _, _)
\* length of the longest run of characters of the class C starting at s[i]
RunLen(s, i, C) ==
    IF i <= Len(s) /\ s[i] \in C THEN 1 + RunLen(s, i + 1, C) ELSE 0

NoMatch == [ matched |-> FALSE, g3 |-> None, g4 |-> None, g5 |-> None ]

\* ("|'|\[(=*)\[)(\d+)(?:\1|\]\2\]) at s[i]
MatchItem(s, i) ==
    LET quote == i <= Len(s) /\ s[i] \in { "\"", "'" }
        eqs == IF i <= Len(s) /\ s[i] = "[" THEN RunLen(s, i + 1, { "=" }) ELSE 0
        bracket == /\ i + eqs + 1 <= Len(s)
                   /\ s[i] = "["
                   /\ s[i + eqs + 1] = "["
        olen == IF quote THEN 1 ELSE eqs + 2
        opener == SubSeq(s, i, i + olen - 1)
        d == i + olen
        nd == RunLen(s, d, Digits)
        c == d + nd
        \* \1: the text group 1 matched, again
        back1 == /\ c + olen - 1 <= Len(s)
                 /\ SubSeq(s, c, c + olen - 1) = opener
        \* \]\2\]: group 2 takes part only in the long-bracket opener
        back2 == /\ bracket
                 /\ c + eqs + 1 <= Len(s)
                 /\ s[c] = "]"
                 /\ SubSeq(s, c + 1, c + eqs) = SubSeq(s, i + 1, i + eqs)
                 /\ s[c + eqs + 1] = "]"
    IN  IF (quote \/ bracket) /\ nd >= 1 /\ (back1 \/ back2)
        THEN [ matched |-> TRUE, g3 |-> Some(SubSeq(s, d, c - 1)), g4 |-> None, g5 |-> None ]
        ELSE NoMatch

\* --#[ \t]*+(.+?)(?:[ \t]+(.+)|$) at s[i]
MatchDirective(s, i) ==
    LET hash == /\ i + 2 <= Len(s)
                /\ SubSeq(s, i, i + 2) = << "-", "-", "#" >>
        k == i + 3 + RunLen(s, i + 3, Blanks)      \* first character of the key
        \* the lazy key ends before the first blank that still leaves one
        \* character for group 5, or else at the end of the line
        Ends == { e \in k..Len(s) :
                    \/ e = Len(s)
                    \/ s[e + 1] \in Blanks /\ e + 2 <= Len(s) }
        e == CHOOSE x \in Ends : \A y \in Ends : x <= y
        blanks == RunLen(s, e + 1, Blanks)
        \* greedy [ \t]+ gives one blank back when the run reaches the end
        v == IF e + blanks = Len(s) THEN Len(s) ELSE e + blanks + 1
    IN  IF hash /\ k <= Len(s)
        THEN [ matched |-> TRUE, g3 |-> None, g4 |-> Some(SubSeq(s, k, e)),
               g5 |-> IF e = Len(s) THEN None ELSE Some(SubSeq(s, v, Len(s))) ]
        ELSE NoMatch

MatchLine(s) ==
    LET i == 1 + RunLen(s, 1, Blanks)
        item == MatchItem(s, i)
    IN  IF item.matched THEN item ELSE MatchDirective(s, i)

\* RE_BUNDLE_DATA.captures_iter(&src): the matches, in order
captures_iter(src) ==
    LET lines == SplitLines(src)
    IN  SelectSeq([ n \in 1..Len(lines) |-> MatchLine(lines[n]) ], LAMBDA m : m.matched)

(***************************************************************************)
(* slice::binary_search.  cmp[i] is the Ordering of element i against the  *)
(* target.  On a slice that is not sorted the result is unspecified and    *)
(* depends on the standard library the program is built with; the two      *)
(* algorithms std has shipped are both modelled, positions are 0-based as  *)
(* in Rust.                                                                *)
(***************************************************************************)
Ok(pos) == [ ok |-> TRUE, pos |-> pos ]
Err(pos) == [ ok |-> FALSE, pos |-> pos ]

RECURSIVE BinarySearchMid(_, _, _)
\* while left < right { mid = left + size / 2; ... }     (std 1.52 .. 1.81)
BinarySearchMid(cmp, left, right) ==
    IF left < right
    THEN LET mid == left + (right - left) \div 2
         IN  CASE cmp[mid + 1] = "Less" -> BinarySearchMid(cmp, mid + 1, right)
               [] cmp[mid + 1] = "Greater" -> BinarySearchMid(cmp, left, mid)
               [] OTHER -> Ok(mid)
    ELSE Err(left)

RECURSIVE BinarySearchBase(_, _, _)
\* while size > 1 { half = size / 2; mid = base + half; ... }    (other stds)
BinarySearchBase(cmp, base, size) ==
    IF size > 1
    THEN LET half == size \div 2
             mid == base + half
         IN  BinarySearchBase(cmp, IF cmp[mid + 1] = "Greater" THEN base ELSE mid, size - half)
    ELSE CASE cmp[base + 1] = "Equal" -> Ok(base)
           [] cmp[base + 1] = "Less" -> Err(base + 1)
           [] OTHER -> Err(base)

StdVariants == { "mid", "base" }

binary_search(cmp, std) ==
    IF Len(cmp) = 0 THEN Err(0)
    ELSE IF std = "mid" THEN BinarySearchMid(cmp, 0, Len(cmp))
    ELSE BinarySearchBase(cmp, 0, Len(cmp))

\* u64::cmp, DateTime::cmp
Ordering(a, b) == IF a < b THEN "Less" ELSE IF a > b THEN "Greater" ELSE "Equal"

\* Vec::remove(pos), Vec::insert(pos, x), 0-based
Remove(v, pos) == SubSeq(v, 1, pos) \o SubSeq(v, pos + 2, Len(v))
Insert(v, pos, x) == SubSeq(v, 1, pos) \o << x >> \o SubSeq(v, pos + 1, Len(v))

(***************************************************************************)
(* Bundle::import                                                          *)
(***************************************************************************)
KeyBundle == << "b", "u", "n", "d", "l", "e" >>
KeyName == << "n", "a", "m", "e" >>
KeyCollection == << "c", "o", "l", "l", "e", "c", "t", "i", "o", "n" >>
KeyUpdated == << "u", "p", "d", "a", "t", "e", "d" >>

BundleCollectionLink(id) == [ id |-> id, include |-> << >>, exclude |-> << >> ]

\* the locals of import before the loop
ImportLocals(now) ==
    [ bundle_start |-> FALSE, name |-> << >>, collection |-> None,
      updated |-> now, items |-> << >> ]

RECURSIVE ImportLoop(_, _, _)
\* for data in RE_BUNDLE_DATA.captures_iter(&src) { .. }
ImportLoop(caps, n, st) ==
    IF n > Len(caps) THEN st
    ELSE LET data == caps[n]
         IN  IF IsSome(data.g4)
             THEN LET key == Unwrap(data.g4)
                  IN  IF key = KeyBundle
                      THEN IF ~st.bundle_start
                           THEN ImportLoop(caps, n + 1, [ st EXCEPT !.bundle_start = TRUE ])
                           ELSE st                                     \* break
                      ELSE IF ~IsSome(data.g5)
                           THEN ImportLoop(caps, n + 1, st)            \* continue
                           ELSE LET val == Unwrap(data.g5)
                                    id == parse_u64(val)
                                    parsed == parse_from_rfc2822(val)
                                IN  ImportLoop(caps, n + 1,
                                      CASE key = KeyName -> [ st EXCEPT !.name = val ]
                                        [] key = KeyCollection /\ IsSome(id) ->
                                             [ st EXCEPT !.collection = Some(BundleCollectionLink(Unwrap(id))) ]
                                        [] key = KeyUpdated /\ IsSome(parsed) ->
                                             [ st EXCEPT !.updated = Unwrap(parsed) ]
                                        [] OTHER -> st)
             ELSE IF IsSome(data.g3)
             THEN LET id == parse_u64(Unwrap(data.g3))
                  IN  IF IsSome(id)
                      THEN ImportLoop(caps, n + 1, [ st EXCEPT !.items = Append(@, Unwrap(id)) ])
                      ELSE ImportLoop(caps, n + 1, st)
             ELSE ImportLoop(caps, n + 1, st)

RECURSIVE ReconcileLoop(_, _, _, _)
\* for item in collection_items { match items.binary_search(&item) { .. } }
\* r = [items, include, exclude]
ReconcileLoop(collection_items, n, r, std) ==
    IF n > Len(collection_items) THEN r
    ELSE LET item == collection_items[n]
             res == binary_search([ i \in 1..Len(r.items) |-> Ordering(r.items[i], item) ], std)
         IN  IF res.ok
             THEN ReconcileLoop(collection_items, n + 1,
                    [ r EXCEPT !.items = Remove(@, res.pos), !.include = Append(@, item) ], std)
             ELSE ReconcileLoop(collection_items, n + 1,
                    [ r EXCEPT !.exclude = Append(@, item) ], std)

\* an import that gives the link up when the oracle has no answer
ReconcileOrUnlink(st, fetched, std) ==
    IF IsSome(st.collection) /\ IsSome(fetched)
    THEN LET out == ReconcileLoop(Unwrap(fetched), 1,
                      [ items |-> st.items, include |-> << >>, exclude |-> << >> ], std)
         IN  [ st EXCEPT !.items = out.items,
                         !.collection = Some([ id |-> Unwrap(st.collection).id,
                                               include |-> out.include,
                                               exclude |-> out.exclude ]) ]
    ELSE [ st EXCEPT !.collection = None ]

\* if let Some(ref mut collection) = collection { if let Some(collection_items) = .. }
\* fetched is what steam!().fetch_collection_items(collection.id) returns
Reconcile(st, fetched, std) ==
    IF IsSome(st.collection) /\ IsSome(fetched)
    THEN LET out == ReconcileLoop(Unwrap(fetched), 1,
                      [ items |-> st.items, include |-> << >>, exclude |-> << >> ], std)
         IN  [ st EXCEPT !.items = out.items,
                         !.collection = Some([ id |-> Unwrap(st.collection).id,
                                               include |-> out.include,
                                               exclude |-> out.exclude ]) ]
    ELSE st

\* import up to the read of BUNDLES.id: the parse loop, the NoItemsFound
\* test and the reconciliation.  Result<locals, BundleError>.
\* caps are the matches captures_iter yields.
ImportCaptures(caps, now, fetched, std) ==
    LET parsed == ImportLoop(caps, 1, ImportLocals(now))
    IN  IF parsed.items = << >>
        THEN [ err |-> "NoItemsFound", ok |-> None ]
        ELSE [ err |-> "", ok |-> Some(Reconcile(parsed, fetched, std)) ]

ImportParse(src, now, fetched, std) ==
    ImportCaptures(captures_iter(src), now, fetched, std)

\* Ok(Bundle { id, name, updated, collection, items })
Bundle(id, st) ==
    [ id |-> id, name |-> st.name, updated |-> st.updated,
      collection |-> st.collection, items |-> st.items ]

(***************************************************************************)
(* Bundle::export                                                          *)
(***************************************************************************)
ExportHeader ==
    << "-", "-", " ", "g", "e", "n", "e", "r", "a", "t", "e", "d", " ", "b", "y", " ", "g", "m", "p", "u", "b", "l", "i", "s", "h", "e", "r", "\n" >>
    \o << "-", "-", " ", "h", "t", "t", "p", "s", ":", "/", "/", "g", "m", "p", "u", "b", "l", "i", "s", "h", "e", "r", ".", "d", "o", "w", "n", "l", "o", "a", "d", "\n" >>
    \o << "-", "-", "#", " ", "b", "u", "n", "d", "l", "e", "\n" >>
ExportName == << "-", "-", "#", " ", "n", "a", "m", "e", " " >>
ExportCollection == << "-", "-", "#", " ", "c", "o", "l", "l", "e", "c", "t", "i", "o", "n", " " >>
ExportUpdated == << "-", "-", "#", " ", "u", "p", "d", "a", "t", "e", "d", " " >>
ExportLoopHead == << "f", "o", "r", " ", "_", ",", "w", " ", "i", "n", " ", "i", "p", "a", "i", "r", "s", "(", "{", "\n", "\n" >>
ExportCollectionHead == << "\n", "-", "-", " ", "C", "o", "l", "l", "e", "c", "t", "i", "o", "n", "\n" >>
ExportComment == << "-", "-", " " >>
ExportCollectionUrl == << "-", "-", " ", "h", "t", "t", "p", "s", ":", "/", "/", "s", "t", "e", "a", "m", "c", "o", "m", "m", "u", "n", "i", "t", "y", ".", "c", "o", "m", "/", "s", "h", "a", "r", "e", "d", "f", "i", "l", "e", "s", "/", "f", "i", "l", "e", "d", "e", "t", "a", "i", "l", "s", "/", "?", "i", "d", "=" >>
ExportLoopTail == << "\n", "}", ")", " ", "d", "o", " ", "r", "e", "s", "o", "u", "r", "c", "e", ".", "A", "d", "d", "W", "o", "r", "k", "s", "h", "o", "p", "(", "w", ")", " ", "e", "n", "d" >>

\* one turn of `for item in ..iter()`: the opening quote and the id, and
\* only when the item has a name: the closing quote, the name, the line feed
ExportItem(item, item_names) ==
    << "\"" >> \o to_string(item)
    \o (IF item \in DOMAIN item_names
        THEN << "\"", " ", "-", "-", " " >> \o item_names[item] \o << "\n" >>
        ELSE << >>)

RECURSIVE ExportItems(_, _)
ExportItems(items, item_names) ==
    IF items = << >> THEN << >>
    ELSE ExportItem(Head(items), item_names) \o ExportItems(Tail(items), item_names)

\* item_names: a function from some item ids to names; collection_name: Option
export(self, item_names, collection_name) ==
    ExportHeader
    \o ExportName \o self.name \o << "\n" >>
    \o (IF IsSome(self.collection)
        THEN ExportCollection \o to_string(Unwrap(self.collection).id) \o << "\n" >>
        ELSE << >>)
    \o ExportUpdated \o to_rfc2822(self.updated) \o << "\n" >>
    \o ExportLoopHead
    \o ExportItems(self.items, item_names)
    \o (IF IsSome(self.collection)
        THEN ExportCollectionHead
             \o (IF IsSome(collection_name)
                 THEN ExportComment \o Unwrap(collection_name) \o << "\n" >>
                 ELSE << >>)
             \o ExportCollectionUrl \o to_string(Unwrap(self.collection).id) \o << "\n" >>
             \o ExportItems(Unwrap(self.collection).include, item_names)
        ELSE << >>)
    \o ExportLoopTail

(***************************************************************************)
(* Inputs.                                                                 *)
(***************************************************************************)
Items == 1..MaxItem
Times == 1..MaxTime
CollectionId == 9

\* Bundle.id and Bundles.id are u16
MaxU16 == 65535

\* n + 1 on u16: the sum, or when it overflows what the build makes of it:
\* the wrapped sum (overflow checks off) or a panic (overflow checks on)
AddOne(n) ==
    IF n < MaxU16 THEN { Some(n + 1) } ELSE { Some((n + 1) % (MaxU16 + 1)), None }

RECURSIVE SeqsUpTo(_, _)
\* the sequences over S of length <= n
SeqsUpTo(S, n) ==
    IF n = 0 THEN { << >> }
    ELSE LET shorter == SeqsUpTo(S, n - 1)
         IN  shorter \cup { Append(q, x) : q \in { r \in shorter : Len(r) = n - 1 }, x \in S }

\* what steam!().fetch_collection_items can return
FetchResponses == { None } \cup { Some(m) : m \in SeqsUpTo(Items, MaxOracleLen) }

LineBundle == << "-", "-", "#", " ", "b", "u", "n", "d", "l", "e" >>
LineName == << "-", "-", "#", " ", "n", "a", "m", "e", " ", "N" >>
LineCollection == << "-", "-", "#", " ", "c", "o", "l", "l", "e", "c", "t", "i", "o", "n", " " >> \o to_string(CollectionId)
LineUpdated == << "-", "-", "#", " ", "u", "p", "d", "a", "t", "e", "d", " " >> \o to_rfc2822(MaxTime)
LineItem(n) == << "\"" >> \o to_string(n) \o << "\"" >>

RECURSIVE JoinLines(_)
JoinLines(lines) ==
    IF lines = << >> THEN << >>
    ELSE IF Len(lines) = 1 THEN lines[1]
    ELSE lines[1] \o << "\n" >> \o JoinLines(Tail(lines))

(***************************************************************************)
(* The persistent layout: bincode::serialize_into / deserialize_from.      *)
(* A file holds the fields of the Bundle in declaration order; a write     *)
(* that stops early leaves a proper prefix of them.                        *)
(***************************************************************************)
serialize(bundle) ==
    << bundle.id, bundle.name, bundle.updated, bundle.collection, bundle.items >>

deserialize(bytes) ==
    IF Len(bytes) = 5
    THEN Some([ id |-> bytes[1], name |-> bytes[2], updated |-> bytes[3],
                collection |-> bytes[4], items |-> bytes[5] ])
    ELSE None

\* Option: the bytes of <dir>/<name>
FileOf(d, name) == IF name \in DOMAIN d THEN Some(d[name]) ELSE None

\* a File::create that does not make the file
WriteFileSkipped(d, name, bytes) == d

WriteFile(d, name, bytes) ==
    [ f \in DOMAIN d \cup { name } |-> IF f = name THEN bytes ELSE d[f] ]

(***************************************************************************)
(* impl Ord for Bundle: by updated.  impl PartialEq for Bundle: by id.     *)
(***************************************************************************)
BundleCmp(a, b) == Ordering(a.updated, b.updated)
BundleEq(a, b) == a.id = b.id

\* saved.binary_search(&bundle)
SearchSaved(saved, bundle, variant) ==
    binary_search([ i \in 1..Len(saved) |-> BundleCmp(saved[i], bundle) ], variant)

(***************************************************************************)
(* Bundles::init: the directory entries in the order read_dir yields them. *)
(***************************************************************************)
RECURSIVE InitLoop(_, _, _, _, _)
InitLoop(d, entries, n, self, variant) ==
    IF n > Len(entries) THEN self
    ELSE LET contents == deserialize(d[entries[n]])
         IN  IF IsSome(contents)
             THEN LET bundle == Unwrap(contents)
                      res == SearchSaved(self.saved, bundle, variant)
                  IN  InitLoop(d, entries, n + 1,
                        [ saved |-> Insert(self.saved, res.pos, bundle),
                          id |-> IF bundle.id > self.id THEN bundle.id ELSE self.id ],
                        variant)
             ELSE InitLoop(d, entries, n + 1, self, variant)       \* ignore!

RECURSIVE InitLoopAborting(_, _, _, _, _)
\* an init that gives up at the first entry it cannot read
InitLoopAborting(d, entries, n, self, variant) ==
    IF n > Len(entries) THEN self
    ELSE LET contents == deserialize(d[entries[n]])
         IN  IF IsSome(contents)
             THEN LET bundle == Unwrap(contents)
                      res == SearchSaved(self.saved, bundle, variant)
                  IN  InitLoopAborting(d, entries, n + 1,
                        [ saved |-> Insert(self.saved, res.pos, bundle),
                          id |-> IF bundle.id > self.id THEN bundle.id ELSE self.id ],
                        variant)
             ELSE self

Bundles_init_aborting(d, entries, variant) ==
    InitLoopAborting(d, entries, 1, [ saved |-> << >>, id |-> 0 ], variant)

Bundles_init(d, entries, variant) ==
    InitLoop(d, entries, 1, [ saved |-> << >>, id |-> 0 ], variant)

\* the orders read_dir can yield the entries of d in
DirOrders(d) ==
    { o \in [ 1..Cardinality(DOMAIN d) -> DOMAIN d ] :
        \A i, j \in DOMAIN o : i # j => o[i] # o[j] }

(***************************************************************************)
(* The store: threads running import, get_bundles and update_bundle        *)
(* against the BUNDLES mutex and the content_generator directory.          *)
(***************************************************************************)
StoreSources ==
    { << >>,
      JoinLines(<< LineBundle, LineCollection, LineItem(2), LineItem(1) >>) }

\* oracle answers the store's imports meet
StoreFetches == { Some(<< 1, 1 >>) }

NoImport == [ st |-> None, conc |-> { } ]
NoUpdate == [ bundle |-> None, pre_saved |-> << >>, pre_file |-> None, buf |-> << >> ]

Importing == { t \in Threads : pc[t] = "import_id" }

CodecIdle ==
    /\ cpc = "off"
    /\ c_src = << >>
    /\ c_fetched = None
    /\ c_now = 1
    /\ c_imported = [ err |-> "", ok |-> None ]
    /\ c_names = << >>
    /\ c_cname = None
    /\ c_exported = << >>
    /\ c_reimported = [ err |-> "", ok |-> None ]

\* a fresh install: lazy_static BUNDLES = Mutex::new(Bundles::init()) over
\* an empty content_generator directory
Init ==
    /\ disk = << >>
    /\ stdlib \in StdVariants
    /\ BUNDLES = Bundles_init(disk, << >>, stdlib)
    /\ lock = "free"
    /\ pc = [ t \in Threads |-> "idle" ]
    /\ imp = [ t \in Threads |-> NoImport ]
    /\ upd = [ t \in Threads |-> NoUpdate ]
    /\ hand = None
    /\ ret = ""
    /\ done = None
    /\ seen = None
    /\ log = << >>
    /\ started = 0
    /\ CodecIdle

\* Bundle::import, lines 73-139: parse, NoItemsFound, reconciliation.  None
\* of it touches the store, so it is one step.
ImportStart(t) ==
    /\ pc[t] = "idle"
    /\ started < MaxImports
    /\ BUNDLES.id < MaxBundleId \/ BUNDLES.id = MaxU16
    /\ \E s \in StoreSources, n \in Times, f \in StoreFetches :
         LET r == ImportParse(s, n, f, stdlib)
         IN  IF IsSome(r.ok)
             THEN /\ pc' = [ pc EXCEPT ![t] = "import_id" ]
                  /\ imp' = [ imp EXCEPT ![t] = [ st |-> r.ok, conc |-> { } ] ]
                  /\ started' = started + 1
             ELSE UNCHANGED << pc, imp, started >>       \* Err(NoItemsFound)
    /\ ret' = ""
    /\ done' = None
    /\ seen' = None
    /\ UNCHANGED << BUNDLES, lock, disk, stdlib, upd, hand, log >>
    /\ UNCHANGED codecVars

\* let id = BUNDLES.lock().id + 1; Ok(Bundle { id, .. })
\* The guard lives for that one statement.  When the sum overflows the
\* import either goes on with the wrapped id or panics, the guard being
\* dropped by the unwinding.
ImportId(t) ==
    /\ pc[t] = "import_id"
    /\ lock = "free"
    /\ \E sum \in AddOne(BUNDLES.id) :
         IF IsSome(sum)
         THEN LET id == Unwrap(sum)
              IN  /\ hand' = Some(Bundle(id, Unwrap(imp[t].st)))
                  /\ log' = Append(log, [ id |-> id, conc |-> imp[t].conc ])
                  /\ imp' = [ u \in Threads |->
                                IF u = t THEN NoImport
                                ELSE IF u \in Importing THEN [ imp[u] EXCEPT !.conc = @ \cup { id } ]
                                ELSE imp[u] ]
         ELSE /\ imp' = [ imp EXCEPT ![t] = NoImport ]
              /\ UNCHANGED << hand, log >>
    /\ pc' = [ pc EXCEPT ![t] = "idle" ]
    /\ ret' = ""
    /\ done' = None
    /\ seen' = None
    /\ UNCHANGED << BUNDLES, lock, disk, stdlib, upd, started >>
    /\ UNCHANGED codecVars

\* get_bundles: the list as it is when the mutex is taken
get_bundles == Range(BUNDLES.saved)

\* the webview invokes get_bundles; the command waits for the mutex
ListCall(t) ==
    /\ pc[t] = "idle"
    /\ pc' = [ pc EXCEPT ![t] = "list_lock" ]
    /\ ret' = ""
    /\ done' = None
    /\ seen' = None
    /\ UNCHANGED << BUNDLES, lock, disk, stdlib, imp, upd, hand, log, started >>
    /\ UNCHANGED codecVars

\* unsafe { &*(&BUNDLES.lock().saved as *const _) }
\* The guard is a temporary of the expression: the mutex is taken and given
\* back within the statement, and what is returned is the address of
\* BUNDLES.saved, nothing of its content.
GetBundles(t) ==
    /\ pc[t] = "list_lock"
    /\ lock = "free"
    /\ pc' = [ pc EXCEPT ![t] = "list_read" ]
    /\ ret' = ""
    /\ done' = None
    /\ seen' = None
    /\ UNCHANGED << BUNDLES, lock, disk, stdlib, imp, upd, hand, log, started >>
    /\ UNCHANGED codecVars

\* the returned &'static Vec<Bundle> is serialized for the webview after
\* get_bundles has returned: it reads the Vec as it lies in memory then,
\* whoever holds the mutex
SerializeList(t) ==
    /\ pc[t] = "list_read"
    /\ seen' = Some(BUNDLES.saved)
    /\ pc' = [ pc EXCEPT ![t] = "idle" ]
    /\ ret' = ""
    /\ done' = None
    /\ UNCHANGED << BUNDLES, lock, disk, stdlib, imp, upd, hand, log, started >>
    /\ UNCHANGED codecVars

\* the webview invokes update_bundle(bundle); the command waits for the mutex
UpdateCall(t) ==
    /\ pc[t] = "idle"
    /\ Range(hand) \cup get_bundles # { }
    /\ pc' = [ pc EXCEPT ![t] = "update_lock" ]
    /\ ret' = ""
    /\ done' = None
    /\ seen' = None
    /\ UNCHANGED << BUNDLES, lock, disk, stdlib, imp, upd, hand, log, started >>
    /\ UNCHANGED codecVars

\* update_bundle(bundle): let mut content_generator = BUNDLES.lock();
\* The caller passes the Bundle its import returned, or one of the list it
\* has fetched; `updated` is the caller's to set.  The argument is drawn
\* when the mutex is acquired.
UpdateLock(t) ==
    /\ pc[t] = "update_lock"
    /\ lock = "free"
    /\ \E b \in Range(hand) \cup get_bundles, u \in Times :
         LET bundle == [ b EXCEPT !.updated = u ]
         IN  upd' = [ upd EXCEPT ![t] = [ bundle |-> Some(bundle),
                                           pre_saved |-> BUNDLES.saved,
                                           pre_file |-> FileOf(disk, bundle.id),
                                           buf |-> << >> ] ]
    /\ lock' = t
    /\ pc' = [ pc EXCEPT ![t] = "create" ]
    /\ ret' = ""
    /\ done' = None
    /\ seen' = None
    /\ UNCHANGED << BUNDLES, disk, stdlib, imp, hand, log, started >>
    /\ UNCHANGED codecVars

\* a failure that leaves the guard behind
UpdateFailsLocked(t) ==
    /\ lock' = lock
    /\ ret' = "false"
    /\ pc' = [ pc EXCEPT ![t] = "idle" ]

\* `?` out of the try_block: the guard is dropped, is_ok() is false
UpdateFails(t) ==
    /\ lock' = "free"
    /\ ret' = "false"
    /\ pc' = [ pc EXCEPT ![t] = "idle" ]

\* let f = File::create(bundles_path().join(bundle.id.to_string()))?;
\* create opens the file truncated, or fails and leaves it alone
UpdateCreate(t) ==
    /\ pc[t] = "create"
    /\ \/ /\ disk' = WriteFile(disk, Unwrap(upd[t].bundle).id, << >>)
          /\ pc' = [ pc EXCEPT ![t] = "write" ]
          /\ ret' = ""
          /\ UNCHANGED lock
       \/ /\ UpdateFails(t)
          /\ UNCHANGED disk
    /\ upd' = IF pc'[t] = "idle" THEN [ upd EXCEPT ![t] = NoUpdate ] ELSE upd
    /\ done' = None
    /\ seen' = None
    /\ UNCHANGED << BUNDLES, stdlib, imp, hand, log, started >>
    /\ UNCHANGED codecVars

\* bincode::serialize_into(BufWriter::new(f), &bundle)?;
\* The BufWriter is dropped inside serialize_into.  Either every byte
\* reaches the file, or a write fails part-way and the error is returned,
\* or the write that fails is the flush in BufWriter's drop, whose error is
\* discarded.
UpdateWrite(t) ==
    /\ pc[t] = "write"
    /\ LET bundle == Unwrap(upd[t].bundle)
           bytes == serialize(bundle)
       IN  \/ /\ disk' = WriteFile(disk, bundle.id, bytes)
              /\ pc' = [ pc EXCEPT ![t] = "index" ]
              /\ ret' = ""
              /\ UNCHANGED lock
           \/ \E k \in 0..MaxTorn :
                /\ disk' = WriteFile(disk, bundle.id, SubSeq(bytes, 1, k))
                /\ UpdateFails(t)
           \/ \E k \in 0..MaxTorn :
                /\ disk' = WriteFile(disk, bundle.id, SubSeq(bytes, 1, k))
                /\ pc' = [ pc EXCEPT ![t] = "index" ]
                /\ ret' = ""
                /\ UNCHANGED lock
    /\ upd' = IF pc'[t] = "idle" THEN [ upd EXCEPT ![t] = NoUpdate ] ELSE upd
    /\ done' = None
    /\ seen' = None
    /\ UNCHANGED << BUNDLES, stdlib, imp, hand, log, started >>
    /\ UNCHANGED codecVars

\* match content_generator.saved.binary_search(&bundle) {
\*     Ok(pos) => content_generator.saved[pos] = bundle,
\*     Err(pos) => content_generator.saved.insert(pos, bundle) }
UpsertSaved(saved, bundle, variant) ==
    LET res == SearchSaved(saved, bundle, variant)
    IN  IF res.ok
        THEN [ saved EXCEPT ![res.pos + 1] = bundle ]
        ELSE Insert(saved, res.pos, bundle)

\* Ok(pos): the element is assigned, the block ends, the guard is dropped.
\* Err(pos): Vec::insert first moves the elements from pos on up by one and
\* writes the new one at pos; the length is still the old one.
UpdateIndex(t) ==
    /\ pc[t] = "index"
    /\ LET bundle == Unwrap(upd[t].bundle)
           res == SearchSaved(BUNDLES.saved, bundle, stdlib)
           after == UpsertSaved(BUNDLES.saved, bundle, stdlib)
       IN  IF res.ok
           THEN /\ BUNDLES' = [ BUNDLES EXCEPT !.saved = after ]
                /\ lock' = "free"
                /\ ret' = "true"
                /\ done' = Some(bundle)
                /\ pc' = [ pc EXCEPT ![t] = "idle" ]
                /\ upd' = [ upd EXCEPT ![t] = NoUpdate ]
           ELSE /\ BUNDLES' = [ BUNDLES EXCEPT !.saved = SubSeq(after, 1, Len(@)) ]
                /\ upd' = [ upd EXCEPT ![t].buf = after ]
                /\ pc' = [ pc EXCEPT ![t] = "set_len" ]
                /\ ret' = ""
                /\ done' = None
                /\ UNCHANGED lock
    /\ seen' = None
    /\ UNCHANGED << disk, stdlib, imp, hand, log, started >>
    /\ UNCHANGED codecVars

\* Vec::insert ends with set_len(len + 1); the block ends, the guard is
\* dropped, is_ok() is true
UpdateSetLen(t) ==
    /\ pc[t] = "set_len"
    /\ BUNDLES' = [ BUNDLES EXCEPT !.saved = upd[t].buf ]
    /\ lock' = "free"
    /\ ret' = "true"
    /\ done' = upd[t].bundle
    /\ seen' = None
    /\ pc' = [ pc EXCEPT ![t] = "idle" ]
    /\ upd' = [ upd EXCEPT ![t] = NoUpdate ]
    /\ UNCHANGED << disk, stdlib, imp, hand, log, started >>
    /\ UNCHANGED codecVars

\* the program is closed and started again: a new session, BUNDLES is
\* initialised from the directory as it is
Restart ==
    /\ \A t \in Threads : pc[t] = "idle"
    /\ lock = "free"
    /\ \E entries \in DirOrders(disk) : BUNDLES' = Bundles_init(disk, entries, stdlib)
    /\ imp' = [ t \in Threads |-> NoImport ]
    /\ upd' = [ t \in Threads |-> NoUpdate ]
    /\ hand' = None
    /\ ret' = ""
    /\ done' = None
    /\ seen' = None
    /\ log' = << >>
    /\ started' = 0
    /\ UNCHANGED << lock, disk, stdlib, pc >>
    /\ UNCHANGED codecVars

Next ==
    \/ \E t \in Threads : ImportStart(t)
    \/ \E t \in Threads : ImportId(t)
    \/ \E t \in Threads : ListCall(t)
    \/ \E t \in Threads : GetBundles(t)
    \/ \E t \in Threads : SerializeList(t)
    \/ \E t \in Threads : UpdateCall(t)
    \/ \E t \in Threads : UpdateLock(t)
    \/ \E t \in Threads : UpdateCreate(t)
    \/ \E t \in Threads : UpdateWrite(t)
    \/ \E t \in Threads : UpdateIndex(t)
    \/ \E t \in Threads : UpdateSetLen(t)
    \/ Restart

Spec == Init /\ [][Next]_vars

\* a step of thread t that takes the BUNDLES mutex
Acquire(t) == ImportId(t) \/ GetBundles(t) \/ UpdateLock(t)

\* a step of thread t that waits for nothing
Proceed(t) ==
    \/ SerializeList(t)
    \/ UpdateCreate(t)
    \/ UpdateWrite(t)
    \/ UpdateIndex(t)
    \/ UpdateSetLen(t)

\* one session: the program runs and is not closed
SessionNext ==
    \/ \E t \in Threads : ImportStart(t)
    \/ \E t \in Threads : ImportId(t)
    \/ \E t \in Threads : ListCall(t)
    \/ \E t \in Threads : GetBundles(t)
    \/ \E t \in Threads : SerializeList(t)
    \/ \E t \in Threads : UpdateCall(t)
    \/ \E t \in Threads : UpdateLock(t)
    \/ \E t \in Threads : UpdateCreate(t)
    \/ \E t \in Threads : UpdateWrite(t)
    \/ \E t \in Threads : UpdateIndex(t)
    \/ \E t \in Threads : UpdateSetLen(t)

\* the bundle that got the last id there is, and the directory of a store
\* that has handed it out and saved it
LastBundle ==
    [ id |-> MaxU16, name |-> << >>, updated |-> 1, collection |-> None, items |-> << 1 >> ]

LastIdInit ==
    /\ disk = WriteFile(<< >>, MaxU16, serialize(LastBundle))
    /\ stdlib \in StdVariants
    /\ BUNDLES = Bundles_init(disk, << MaxU16 >>, stdlib)
    /\ lock = "free"
    /\ pc = [ t \in Threads |-> "idle" ]
    /\ imp = [ t \in Threads |-> NoImport ]
    /\ upd = [ t \in Threads |-> NoUpdate ]
    /\ hand = None
    /\ ret = ""
    /\ done = None
    /\ seen = None
    /\ log = << >>
    /\ started = 0
    /\ CodecIdle

\* the session of the program that starts on that directory
LastIdSpec == LastIdInit /\ [][SessionNext]_vars

\* Scheduling.  A thread that can take a step of its own takes it.  A
\* thread parked on the parking_lot mutex gets it in the end although
\* others keep taking it (the mutex hands itself over to a parked thread
\* when it has been barged past for long enough): strong fairness on the
\* acquisitions.
Fairness ==
    \A t \in Threads : SF_vars(Acquire(t)) /\ WF_vars(Proceed(t))

FairSpec == Init /\ [][SessionNext]_vars /\ Fairness

(***************************************************************************)
(* The codec on its own: one text is imported, the Bundle is exported and  *)
(* the exported text is imported again, the oracle answering the same.     *)
(***************************************************************************)
CodecLines ==
    { LineBundle, LineName, LineCollection, LineUpdated } \cup { LineItem(n) : n \in Items }

SourceTexts == { JoinLines(ls) : ls \in SeqsUpTo(CodecLines, MaxLines) }

ItemName == << "A" >>
CollectionName == << "C" >>

\* the HashMap<PublishedFileId, String> handed to export: display names
\* for any of the Bundle's items
NameMaps(bundle) ==
    LET listed == Range(bundle.items)
                  \cup (IF IsSome(bundle.collection)
                        THEN Range(Unwrap(bundle.collection).include) ELSE { })
    IN  { [ i \in D |-> ItemName ] : D \in SUBSET listed }

\* the collection's display name is looked up only for a Bundle that has one
CollectionNames(bundle) ==
    IF IsSome(bundle.collection) THEN { None, Some(CollectionName) } ELSE { None }

NoResult == [ err |-> "", ok |-> None ]

\* Result<Bundle, BundleError> of the whole import, BUNDLES being id0
import(text, clock, answer, std, id0) ==
    LET r == ImportParse(text, clock, answer, std)
    IN  IF IsSome(r.ok)
        THEN [ err |-> "", ok |-> Some(Bundle(id0 + 1, Unwrap(r.ok))) ]
        ELSE [ err |-> r.err, ok |-> None ]

StoreFresh ==
    /\ disk = << >>
    /\ BUNDLES = Bundles_init(disk, << >>, stdlib)
    /\ lock = "free"
    /\ pc = [ t \in Threads |-> "idle" ]
    /\ imp = [ t \in Threads |-> NoImport ]
    /\ upd = [ t \in Threads |-> NoUpdate ]
    /\ hand = None
    /\ ret = ""
    /\ done = None
    /\ seen = None
    /\ log = << >>
    /\ started = 0

CodecInit ==
    /\ stdlib \in StdVariants
    /\ StoreFresh
    /\ cpc = "start"
    /\ c_src \in SourceTexts
    /\ c_fetched \in FetchResponses
    /\ c_now \in Times
    /\ c_imported = NoResult
    /\ c_names = << >>
    /\ c_cname = None
    /\ c_exported = << >>
    /\ c_reimported = NoResult

CodecImport ==
    /\ cpc = "start"
    /\ lock = "free"
    /\ c_imported' = import(c_src, c_now, c_fetched, stdlib, BUNDLES.id)
    /\ cpc' = "imported"
    /\ UNCHANGED << c_src, c_fetched, c_now, c_names, c_cname, c_exported, c_reimported >>
    /\ UNCHANGED << stdlib, storeVars >>

CodecExport ==
    /\ cpc = "imported"
    /\ IsSome(c_imported.ok)
    /\ \E names \in NameMaps(Unwrap(c_imported.ok)),
          cname \in CollectionNames(Unwrap(c_imported.ok)) :
         /\ c_names' = names
         /\ c_cname' = cname
         /\ c_exported' = export(Unwrap(c_imported.ok), names, cname)
    /\ cpc' = "exported"
    /\ UNCHANGED << c_src, c_fetched, c_now, c_imported, c_reimported >>
    /\ UNCHANGED << stdlib, storeVars >>

CodecReimport ==
    /\ cpc = "exported"
    /\ lock = "free"
    /\ \E clock \in Times :
         c_reimported' = import(c_exported, clock, c_fetched, stdlib, BUNDLES.id)
    /\ cpc' = "reimported"
    /\ UNCHANGED << c_src, c_fetched, c_now, c_imported, c_names, c_cname, c_exported >>
    /\ UNCHANGED << stdlib, storeVars >>

CodecNext == CodecImport \/ CodecExport \/ CodecReimport

CodecSpec == CodecInit /\ [][CodecNext]_vars

(***************************************************************************)
(* Properties.                                                             *)
(***************************************************************************)
saved == BUNDLES.saved

\* C1: two imports that run concurrently get two distinct BundleIds (and so
\* two distinct files, a file being named by the id): no import returns an
\* id that was handed to another import while it was running.
C1_ConcurrentImportsDistinctIds ==
    \A i \in 1..Len(log) : log[i].id \notin log[i].conc

\* C2: within one session every import gets an id strictly greater than the
\* ids of all imports that returned before it, so no id is issued twice.
C2_IdsStrictlyIncrease ==
    \A i, j \in 1..Len(log) : i < j => log[i].id < log[j].id

\* C3: the in-memory index holds at most one entry per BundleId.
C3_OneEntryPerId ==
    \A i, j \in 1..Len(saved) : i # j => saved[i].id # saved[j].id

\* C4: the in-memory list is sorted ascending by the pair (updated, id).
C4_SortedByUpdatedThenId ==
    \A i \in 1..(Len(saved) - 1) :
        \/ saved[i].updated < saved[i + 1].updated
        \/ /\ saved[i].updated = saved[i + 1].updated
           /\ saved[i].id <= saved[i + 1].id

\* C5: every bundle of the index has an id at most the allocator's counter.
C5_IdAtMostHighWater ==
    \A i \in 1..Len(saved) : saved[i].id <= BUNDLES.id

Include(bundle) ==
    IF IsSome(bundle.collection) THEN Unwrap(bundle.collection).include ELSE << >>
Exclude(bundle) ==
    IF IsSome(bundle.collection) THEN Unwrap(bundle.collection).exclude ELSE << >>

\* no value occurs twice in the three sequences taken together
PairwiseDisjoint(bundle) ==
    /\ Range(bundle.items) \cap Range(Include(bundle)) = { }
    /\ Range(bundle.items) \cap Range(Exclude(bundle)) = { }
    /\ Range(Include(bundle)) \cap Range(Exclude(bundle)) = { }

\* C6: in every Bundle import produces, items, collection.include and
\* collection.exclude are pairwise disjoint.
C6_ImportedPairwiseDisjoint ==
    IsSome(c_imported.ok) => PairwiseDisjoint(Unwrap(c_imported.ok))

Members(bundle) == Range(bundle.items) \cup Range(Include(bundle))
CollectionIdOf(bundle) ==
    IF IsSome(bundle.collection) THEN Some(Unwrap(bundle.collection).id) ELSE None

\* C7: importing the text export wrote, the oracle answering the same, gives
\* a Bundle with the same name, the same collection id and the same set
\* items + collection.include, whatever names export was given.
C7_ExportImportRoundTrip ==
    cpc = "reimported" =>
        /\ IsSome(c_reimported.ok)
        /\ Unwrap(c_reimported.ok).name = Unwrap(c_imported.ok).name
        /\ CollectionIdOf(Unwrap(c_reimported.ok)) = CollectionIdOf(Unwrap(c_imported.ok))
        /\ Members(Unwrap(c_reimported.ok)) = Members(Unwrap(c_imported.ok))

IsBundleDirective(data) == IsSome(data.g4) /\ Unwrap(data.g4) = KeyBundle

\* positions of the `bundle` directives among the matches
BundleDirectives(caps) == { n \in 1..Len(caps) : IsBundleDirective(caps[n]) }
Least(S) == CHOOSE x \in S : \A y \in S : x <= y

\* what import returns when only the matches caps are read
ImportOf(caps) ==
    LET r == ImportCaptures(caps, c_now, c_fetched, stdlib)
    IN  IF IsSome(r.ok)
        THEN [ err |-> "", ok |-> Some(Bundle(BUNDLES.id + 1, Unwrap(r.ok))) ]
        ELSE [ err |-> r.err, ok |-> None ]

\* the matches from the first `bundle` directive on: the InBundle part
FromFirstBundle(caps) ==
    IF BundleDirectives(caps) = { } THEN << >>
    ELSE SubSeq(caps, Least(BundleDirectives(caps)), Len(caps))

\* C8: tokens before the first `bundle` directive are ignored: import
\* returns what it returns for the tokens from that directive on, and
\* NoItemsFound when there is no `bundle` directive.
C8_PreBundleTokensIgnored ==
    cpc = "imported" => c_imported = ImportOf(FromFirstBundle(captures_iter(c_src)))

\* the matches from the first `bundle` directive up to the second
FirstRegion(caps) ==
    LET first == Least(BundleDirectives(caps))
        second == Least(BundleDirectives(caps) \ { first })
    IN  SubSeq(caps, first, second - 1)

\* C9: with two or more `bundle` directives the Bundle is determined by the
\* tokens between the first and the second directive alone.
C9_OnlyFirstRegionCounts ==
    (cpc = "imported" /\ Cardinality(BundleDirectives(captures_iter(c_src))) >= 2) =>
        c_imported = ImportOf(FirstRegion(captures_iter(c_src)))

\* C10: a failed update_bundle returns false, leaves the index as it was
\* when the call took the mutex and leaves the file it had persisted before
\* as it was.
C10_FailedUpsertChangesNothing ==
    [][ \A t \in Threads :
          (pc[t] \in { "create", "write" } /\ pc'[t] = "idle") =>
              /\ ret' = "false"
              /\ BUNDLES'.saved = upd[t].pre_saved
              /\ IsSome(upd[t].pre_file) =>
                    FileOf(disk', Unwrap(upd[t].bundle).id) = upd[t].pre_file ]_vars

\* C11: whenever the mutex is free, so that a reader can take it and look,
\* every bundle of the in-memory index has its file in the directory.
C11_IndexedBundleHasFile ==
    lock = "free" => \A i \in 1..Len(saved) : saved[i].id \in DOMAIN disk

C11_Witness ==
    /\ lock = "free"
    /\ Len(saved) >= 1
    /\ \E t, u \in Threads : pc[t] = "list_read" /\ pc[u] = "update_lock"

\* C12: what a caller reads through the list get_bundles gave it is the
\* index as it was before or as it is after any update_bundle that is
\* running, never the index in the middle of being changed.
C12_ListIsASnapshot ==
    IsSome(seen) =>
        \A t \in Threads :
            pc[t] = "set_len" => Unwrap(seen) \in { upd[t].pre_saved, upd[t].buf }

\* C13: when update_bundle(B) has returned true and the program is started
\* again on the same directory, the index Bundles::init builds holds a
\* bundle equal to B in every field.
C13_UpsertThenInit ==
    [][ (IsSome(done) /\ Restart) =>
            \E i \in 1..Len(BUNDLES'.saved) : BUNDLES'.saved[i] = Unwrap(done) ]_vars

\* C14: when the counter is already 65535 the id allocation fails: no
\* import of the session returns a bundle (whose id would have wrapped).
C14_NoIdPastTheLast ==
    BUNDLES.id = MaxU16 => log = << >>

\* the locals of import when its parse loop has read the text
Parsed == ImportLoop(captures_iter(c_src), 1, ImportLocals(c_now))

Keep(q, S) == SelectSeq(q, LAMBDA x : x \in S)
Drop(q, S) == SelectSeq(q, LAMBDA x : x \notin S)
NoRepeats(q) == \A i, j \in 1..Len(q) : i # j => q[i] # q[j]

\* C15: after an import with a resolved collection, whatever the order the
\* items were parsed in, include is the oracle's members that were parsed
\* and exclude those that were not, both in the oracle's order, and items
\* is the parsed list without the included members, in parse order.
\* (Stated for parsed lists and oracle answers without repeated ids.)
C15_ReconciliationPartitions ==
    ( /\ cpc = "imported"
      /\ IsSome(c_imported.ok)
      /\ IsSome(Parsed.collection)
      /\ IsSome(c_fetched)
      /\ NoRepeats(Parsed.items)
      /\ NoRepeats(Unwrap(c_fetched)) ) =>
        LET got == Unwrap(c_imported.ok)
            members == Unwrap(c_fetched)
        IN  /\ Include(got) = Keep(members, Range(Parsed.items))
            /\ Exclude(got) = Drop(members, Range(Parsed.items))
            /\ got.items = Drop(Parsed.items, Range(members))

\* the item tokens of the InBundle region: from the first `bundle`
\* directive up to the second
InBundleItems ==
    ImportLoop(FromFirstBundle(captures_iter(c_src)), 1, ImportLocals(c_now)).items

\* C16: the set items + collection.include of an imported bundle is the set
\* of the valid item tokens of the InBundle region, whatever the oracle
\* answered.
C16_MembersAreTheInBundleItems ==
    (cpc = "imported" /\ IsSome(c_imported.ok)) =>
        Members(Unwrap(c_imported.ok)) = Range(InBundleItems)

\* items is every parsed item in parse order and the link has the parsed
\* collection id with include and exclude empty
Unreconciled(result) ==
    /\ IsSome(result.ok)
    /\ Unwrap(result.ok).items = Parsed.items
    /\ Unwrap(result.ok).collection
         = Some(BundleCollectionLink(Unwrap(Parsed.collection).id))

GoodEntries(d) == { f \in DOMAIN d : IsSome(deserialize(d[f])) }

\* C18: Bundles::init, in whatever order it reads the directory, leaves
\* every entry where it is, puts every entry that deserializes into the
\* index and skips the others.
C18_InitSkipsBadEntries ==
    [][ Restart =>
          /\ disk' = disk
          /\ Len(BUNDLES'.saved) = Cardinality(GoodEntries(disk))
          /\ \A f \in GoodEntries(disk) :
                \E i \in 1..Len(BUNDLES'.saved) :
                    BUNDLES'.saved[i] = Unwrap(deserialize(disk[f])) ]_vars

\* a session that started on a directory with a corrupt entry and a good one
C18_Witness ==
    /\ started = 0
    /\ hand = None
    /\ \A t \in Threads : pc[t] = "idle"
    /\ GoodEntries(disk) # { }
    /\ DOMAIN disk \ GoodEntries(disk) # { }
    /\ Len(saved) = Cardinality(GoodEntries(disk))
    /\ \A f \in GoodEntries(disk) :
          \E i \in 1..Len(saved) : saved[i] = Unwrap(deserialize(disk[f]))

\* C19: update_bundle(B) leaves every entry of the index whose id is not
\* B.id in the index, unchanged.
C19_UpsertKeepsOtherEntries ==
    [][ \A t \in Threads :
          (pc[t] \in { "index", "set_len" } /\ pc'[t] = "idle") =>
              \A i \in 1..Len(upd[t].pre_saved) :
                  upd[t].pre_saved[i].id # Unwrap(upd[t].bundle).id =>
                      \E j \in 1..Len(BUNDLES'.saved) :
                          BUNDLES'.saved[j] = upd[t].pre_saved[i] ]_vars

\* threads parked on, or about to take, the BUNDLES mutex
Waiting(t) == pc[t] \in { "import_id", "list_lock", "update_lock" }

\* C20: no thread asks for the BUNDLES mutex while it holds it, and under
\* fair scheduling every import, get_bundles and update_bundle that asks for
\* the mutex gets it, finishes and has given it back.
C20_MutexNeverDeadlocks ==
    /\ [](\A t \in Threads : Waiting(t) => lock # t)
    /\ \A t \in Threads :
          /\ (pc[t] = "import_id") ~> (pc[t] = "idle")
          /\ (pc[t] = "list_lock") ~> (pc[t] = "list_read" /\ lock # t)
          /\ (pc[t] = "update_lock") ~> (pc[t] = "idle" /\ lock # t)

C20_Witness ==
    \E t, u \in Threads :
        /\ lock = t
        /\ pc[t] = "set_len"
        /\ pc[u] = "import_id"

====
